---- MODULE Spec2Model ----
(***************************************************************************)
(* The video ingestion / transcode / publication pipeline of vida:         *)
(*   app/api/video.py            upload_video, update_video, delete_video  *)
(*   app/crud/video_crud.py      VideoCRUD.create / update / delete        *)
(*   app/infra/kafka/*           producer, consumer, default handler       *)
(*   app/tasks/video_transcode.py  the Celery task video_transcode_task    *)
(*   app/infra/minio/minio_service.py  publish_video, upload_video_cover   *)
(*   app/infra/elasticsearch/sync_service.py  index upsert / delete        *)
(***************************************************************************)
EXTENDS Integers, Sequences, FiniteSets, TLC

\* ------------------------------------------------------------------ bounds
MaxUploads == 2      \* videos uploaded (the ids of the videos table)
MaxInflight == 1     \* upload requests being served at the same time
MaxTasks == 2        \* submissions of video_transcode_task
NumWorkers == 2      \* Celery worker processes running tasks at the same time
NumNonces == 2       \* distinct timestamp_uuid parts of generated object names
MaxWorkerVideos == 1 \* videos uploaded in the worker, task and endpoint specifications
MaxIncrements == 3   \* concurrent increment operations on one counter
MaxBatch == 2        \* videos in one call of bulk_sync_videos_to_es
MaxSearchRows == 2   \* rows of the videos table a search runs on

\* ------------------------------------------------------- program constants
max_size == 500 * 1024 * 1024          \* upload_video: max_size
max_retries == 2                       \* video_transcode_task: retry_kwargs

Users == {1}
VideoIds == 1..MaxUploads
Reqs == 1..MaxInflight
Tasks == 1..MaxTasks
Nonces == 1..NumNonces
StatOps == 1..MaxIncrements

None == <<>>          \* a null object key / URL
null == "null"        \* a null string field of a request

allowed_formats == {"mp4", "avi", "mov", "mkv", "flv", "webm"}
valid_statuses == {"pending", "processing", "published", "failed", "deleted"}

\* File names as the list filename.split('.') yields; <<>> is a missing name.
FileNames == { <<"clip", "MP4">>, <<"clip", "exe">>, <<"mp4">>, <<>> }
FileSizes == {0, max_size, max_size + 1}
GoodFileNames == { <<"clip", "MP4">> }
GoodFileSizes == { max_size }

\* str.lower() on the extensions that occur
Lower(s) == IF s = "MP4" THEN "mp4" ELSE s

\* video_file.filename.split('.')[-1].lower() if video_file.filename else ''
file_ext(filename) ==
    IF filename = <<>> THEN "" ELSE Lower(filename[Len(filename)])

VARIABLES
    videos,        \* the videos table: id -> row (rows with id >= nextId do not exist)
    nextId,        \* next autoincrement id of the videos table
    rawBucket,     \* object names in the private raw bucket
    publicBucket,  \* public bucket: object key -> id of the video whose transcode it holds (0: no object)
    esIndex,       \* search index: id -> status stored in the document ("absent": no document)
    kafkaTopic,    \* the transcode topic (log of messages)
    kafkaOffset,   \* consumer position in the topic
    req,           \* upload requests in flight: position in upload_video and its locals
    tasks,         \* video_transcode_task messages and their executions
    kafkaLog,      \* outcome of the handler for every message the consumer has taken
    kafkaCommitted,\* offset the consumer group has committed to the broker
    response,      \* response of the last update_video / delete_video call
    stat,          \* a counter column (view/favorite/comment count) of one video row
    statOps,       \* increment operations on that counter: position and value read
    call           \* one call of a search / bulk-sync function: arguments and result

\* the ingestion / transcode pipeline
pipeVars == <<videos, nextId, rawBucket, publicBucket, esIndex,
              kafkaTopic, kafkaOffset, req, tasks, kafkaLog, kafkaCommitted, response>>
\* the counter operations and the search functions
auxVars == <<stat, statOps, call>>

vars == <<pipeVars, auxVars>>

\* user_{user_id}/video_{timestamp}_{uuid8}.ext
Keys == Users \X Nonces

NoVideo == [author_id |-> 0, status |-> "none", play_url |-> None, cover_url |-> None,
            publish_time |-> None]
NoReq == [pc |-> "idle", user |-> 0, filename |-> <<>>, size |-> 0, raw |-> None,
          video_id |-> 0, es_attempted |-> FALSE, task_id |-> "none",
          response |-> "none"]
NoTask == [st |-> "none", video_id |-> 0, user_id |-> 0, retries |-> 0,
           stage |-> "none", temp_dir |-> FALSE, cover |-> FALSE, obj |-> None,
           leftover |-> FALSE, quality |-> "720p"]
NoResponse == [op |-> "none", code |-> 0]
NoCall == [op |-> "none"]
NoStatOp == [pc |-> "idle", via |-> "none", current_value |-> 0]

Exists(v) == v \in VideoIds /\ v < nextId

InitPipeline ==
    /\ videos = [v \in VideoIds |-> NoVideo]
    /\ nextId = 1
    /\ rawBucket = {}
    /\ publicBucket = [k \in Keys |-> 0]
    /\ esIndex = [v \in VideoIds |-> "absent"]
    /\ kafkaTopic = <<>>
    /\ kafkaOffset = 0
    /\ req = [r \in Reqs |-> NoReq]
    /\ tasks = [t \in Tasks |-> NoTask]
    /\ kafkaLog = <<>>
    /\ kafkaCommitted = 0
    /\ response = NoResponse

InitAux ==
    /\ stat = 0
    /\ statOps = [p \in StatOps |-> NoStatOp]
    /\ call = NoCall

Init == InitPipeline /\ InitAux

\* ========================================================= search index sync
\* sync_video_to_es / update_video_in_es: es_client.index(id, doc) with the
\* row's status in the document; ok = FALSE is a client or index failure,
\* which is logged and answered with False.
sync_video_to_es(idx, v, status, ok) ==
    IF ok THEN [idx EXCEPT ![v] = status] ELSE idx

\* delete_video_from_es: es_client.delete(id); a failure leaves the document.
delete_video_from_es(idx, v, ok) ==
    IF ok THEN [idx EXCEPT ![v] = "absent"] ELSE idx

\* ============================================================ upload_video
\* upload_video with the raw upload moved in front of the validation.
UploadBegin_StoreFirst(r, u, filename, size, minio_ok) ==
    /\ req[r].pc = "idle"
    /\ Cardinality(rawBucket) < MaxUploads
    /\ LET base == [req[r] EXCEPT !.user = u, !.filename = filename, !.size = size]
           name == <<u, Cardinality(rawBucket) + 1>>
       IN IF ~minio_ok
          THEN /\ req' = [req EXCEPT ![r] = [base EXCEPT !.pc = "error",
                                                        !.response = "500:upload_file"]]
               /\ UNCHANGED rawBucket
          ELSE /\ rawBucket' = rawBucket \cup {name}
               /\ req' = [req EXCEPT ![r] =
                            IF file_ext(filename) \notin allowed_formats
                               \/ size > max_size \/ size = 0
                            THEN [base EXCEPT !.pc = "rejected", !.response = "400"]
                            ELSE [base EXCEPT !.pc = "create", !.raw = name]]
    /\ UNCHANGED <<videos, nextId, publicBucket, esIndex, kafkaTopic, kafkaOffset, tasks,
                   kafkaLog, kafkaCommitted, response, auxVars>>

\* Steps 1-3 of upload_video: format check, size checks, then the raw upload
\* under user_{id}/{time}_{uuid}_{filename} (n stands for {time}_{uuid}).
UploadBegin(r, u, filename, size, minio_ok) ==
    /\ req[r].pc = "idle"
    /\ Cardinality(rawBucket) < MaxUploads
    /\ LET base == [req[r] EXCEPT !.user = u, !.filename = filename, !.size = size]
           name == <<u, Cardinality(rawBucket) + 1>>
       IN IF file_ext(filename) \notin allowed_formats
          THEN /\ req' = [req EXCEPT ![r] = [base EXCEPT !.pc = "rejected", !.response = "400"]]
               /\ UNCHANGED rawBucket
          ELSE IF size > max_size
          THEN /\ req' = [req EXCEPT ![r] = [base EXCEPT !.pc = "rejected", !.response = "400"]]
               /\ UNCHANGED rawBucket
          ELSE IF size = 0
          THEN /\ req' = [req EXCEPT ![r] = [base EXCEPT !.pc = "rejected", !.response = "400"]]
               /\ UNCHANGED rawBucket
          ELSE IF minio_ok
          THEN /\ rawBucket' = rawBucket \cup {name}
               /\ req' = [req EXCEPT ![r] = [base EXCEPT !.pc = "create", !.raw = name]]
          ELSE /\ req' = [req EXCEPT ![r] = [base EXCEPT !.pc = "error",
                                                        !.response = "500:upload_file"]]
               /\ UNCHANGED rawBucket
    /\ UNCHANGED <<videos, nextId, publicBucket, esIndex, kafkaTopic, kafkaOffset, tasks,
                   kafkaLog, kafkaCommitted, response, auxVars>>

\* Steps 4 and 4.5: video_crud.create (add, commit, refresh), then the
\* best-effort index upsert of the pending row.
UploadCreate(r, es_ok) ==
    /\ req[r].pc = "create"
    /\ nextId \in VideoIds
    /\ videos' = [videos EXCEPT ![nextId] =
                     [author_id |-> req[r].user, status |-> "pending",
                      play_url |-> None, cover_url |-> None, publish_time |-> None]]
    /\ nextId' = nextId + 1
    /\ esIndex' = sync_video_to_es(esIndex, nextId, "pending", es_ok)
    /\ req' = [req EXCEPT ![r].pc = "submit", ![r].video_id = nextId,
                          ![r].es_attempted = TRUE]
    /\ UNCHANGED <<rawBucket, publicBucket, kafkaTopic, kafkaOffset, tasks,
                   kafkaLog, kafkaCommitted, response, auxVars>>

\* KafkaService.submit_transcode_task -> KafkaClient.send_transcode_task ->
\* send_message: True appends the message to the topic; any producer error
\* gives False, which submit_transcode_task turns into an exception.
submit_transcode_task(topic, video_id, raw_file_path, user_id, send_ok) ==
    IF send_ok
    THEN Append(topic, [video_id |-> video_id, raw_file_path |-> raw_file_path,
                        user_id |-> user_id])
    ELSE topic

\* upload_video sending the job before video_crud.create has committed the
\* row, with the id the row is going to get.
UploadSubmit_BeforeCreate(r, send_ok) ==
    /\ req[r].pc = "create"
    /\ req[r].task_id = "none"
    /\ nextId \in VideoIds
    /\ kafkaTopic' = submit_transcode_task(kafkaTopic, nextId, req[r].raw,
                                           req[r].user, send_ok)
    /\ req' = [req EXCEPT ![r].task_id = IF send_ok THEN "sent" ELSE "failed"]
    /\ UNCHANGED <<videos, nextId, rawBucket, publicBucket, esIndex, kafkaOffset, tasks,
                   kafkaLog, kafkaCommitted, response, auxVars>>

\* upload_video without the try/except around the submission: the exception
\* reaches the outer handler and the request is answered 500.
UploadSubmit_Propagates(r, send_ok) ==
    /\ req[r].pc = "submit"
    /\ kafkaTopic' = submit_transcode_task(kafkaTopic, req[r].video_id, req[r].raw,
                                           req[r].user, send_ok)
    /\ req' = [req EXCEPT ![r].pc = IF send_ok THEN "presign" ELSE "error",
                          ![r].task_id = IF send_ok THEN "sent" ELSE "failed",
                          ![r].response = IF send_ok THEN @ ELSE "500:submit_transcode_task"]
    /\ UNCHANGED <<videos, nextId, rawBucket, publicBucket, esIndex, kafkaOffset, tasks,
                   kafkaLog, kafkaCommitted, response, auxVars>>

\* Step 5: the submission inside try/except; on an exception the handler
\* logs, sets task_id = None and goes on.
UploadSubmit(r, send_ok) ==
    /\ req[r].pc = "submit"
    /\ kafkaTopic' = submit_transcode_task(kafkaTopic, req[r].video_id, req[r].raw,
                                           req[r].user, send_ok)
    /\ req' = [req EXCEPT ![r].pc = "presign",
                          ![r].task_id = IF send_ok THEN "sent" ELSE "failed"]
    /\ UNCHANGED <<videos, nextId, rawBucket, publicBucket, esIndex, kafkaOffset, tasks,
                   kafkaLog, kafkaCommitted, response, auxVars>>

\* Step 6 and the return: minio_client.get_file_url may raise; the outer
\* except turns that into HTTP 500 with the cause in its detail.
UploadReturn(r, url_ok) ==
    /\ req[r].pc = "presign"
    /\ req' = [req EXCEPT ![r].pc = IF url_ok THEN "done" ELSE "error",
                          ![r].response = IF url_ok THEN "success" ELSE "500:get_file_url"]
    /\ UNCHANGED <<videos, nextId, rawBucket, publicBucket, esIndex, kafkaTopic,
                   kafkaOffset, tasks,
                   kafkaLog, kafkaCommitted, response, auxVars>>

\* The response has been sent: the request and its locals are gone.
UploadFinish(r) ==
    /\ req[r].pc \in {"rejected", "done", "error"}
    /\ req' = [req EXCEPT ![r] = NoReq]
    /\ UNCHANGED <<videos, nextId, rawBucket, publicBucket, esIndex, kafkaTopic,
                   kafkaOffset, tasks,
                   kafkaLog, kafkaCommitted, response, auxVars>>

\* ==================================================== update / delete video
\* update_video without the try/except around update_video_in_es, and the
\* index helper raising instead of answering False: the error of the index
\* reaches the outer handler, which answers 500.
UpdateVideo_IndexErrorPropagates(u, v, title, status, es_ok) ==
    /\ Exists(v)
    /\ videos[v].author_id = u
    /\ status # null => status \in valid_statuses
    /\ title # null \/ status # null
    /\ LET row == [videos[v] EXCEPT !.status = IF status # null THEN status ELSE @]
       IN /\ videos' = [videos EXCEPT ![v] = row]
          /\ esIndex' = sync_video_to_es(esIndex, v, row.status, es_ok)
    /\ response' = [op |-> "update", code |-> IF es_ok THEN 200 ELSE 500]
    /\ UNCHANGED <<nextId, rawBucket, publicBucket, kafkaTopic, kafkaOffset, req, tasks,
                   kafkaLog, kafkaCommitted, auxVars>>

\* update_video: owner check, update_data from the non-null request fields
\* (title is not part of the modelled row), status validated against
\* valid_statuses, VideoCRUD.update, then the best-effort index upsert.
UpdateVideo(u, v, title, status, es_ok) ==
    /\ Exists(v)
    /\ videos[v].author_id = u
    /\ status # null => status \in valid_statuses
    /\ title # null \/ status # null
    /\ LET row == [videos[v] EXCEPT !.status = IF status # null THEN status ELSE @]
       IN /\ videos' = [videos EXCEPT ![v] = row]
          /\ esIndex' = sync_video_to_es(esIndex, v, row.status, es_ok)
    /\ response' = [op |-> "update", code |-> 200]
    /\ UNCHANGED <<nextId, rawBucket, publicBucket, kafkaTopic, kafkaOffset, req, tasks,
                   kafkaLog, kafkaCommitted, auxVars>>

\* delete_video: owner check, VideoCRUD.delete (status := deleted, nothing
\* else), then the best-effort index delete.
\* delete_video answering 404 for a row that is already 'deleted' (a lookup
\* that filters deleted rows), to be told apart from the delete_video of
\* the source.
DeleteVideo_NotFoundWhenDeleted(u, v, es_ok) ==
    /\ Exists(v)
    /\ videos[v].author_id = u
    /\ IF videos[v].status = "deleted"
          THEN /\ response' = [op |-> "delete", code |-> 404]
               /\ UNCHANGED <<videos, esIndex>>
          ELSE /\ videos' = [videos EXCEPT ![v].status = "deleted"]
               /\ esIndex' = delete_video_from_es(esIndex, v, es_ok)
               /\ response' = [op |-> "delete", code |-> 200]
    /\ UNCHANGED <<nextId, rawBucket, publicBucket, kafkaTopic, kafkaOffset, req, tasks,
                   kafkaLog, kafkaCommitted, auxVars>>

DeleteVideo(u, v, es_ok) ==
    /\ Exists(v)
    /\ videos[v].author_id = u
    /\ videos' = [videos EXCEPT ![v].status = "deleted"]
    /\ esIndex' = delete_video_from_es(esIndex, v, es_ok)
    /\ response' = [op |-> "delete", code |-> 200]
    /\ UNCHANGED <<nextId, rawBucket, publicBucket, kafkaTopic, kafkaOffset, req, tasks,
                   kafkaLog, kafkaCommitted, auxVars>>

\* ============================================================ Kafka consumer
\* One iteration of the loop of consume_messages (started by
\* start_kafka_consumer): the iterator hands out the next message and moves
\* the position past it, then message_handler runs. The default handler
\* process_transcode_task builds a simulated 'completed' result and touches
\* neither the database nor Celery. handler_ok = FALSE: the handler raises
\* (from_dict on a message without a required key, or a handler passed in);
\* the except branch logs, _handle_failed_message logs an error_info with
\* retry_count 0, and the loop goes on with the next message.
KafkaConsume(handler_ok) ==
    /\ kafkaOffset < Len(kafkaTopic)
    /\ kafkaOffset' = kafkaOffset + 1
    /\ kafkaLog' = Append(kafkaLog, IF handler_ok THEN "handled" ELSE "failed")
    /\ UNCHANGED <<videos, nextId, rawBucket, publicBucket, esIndex, kafkaTopic, req, tasks,
                   kafkaCommitted, response, auxVars>>

\* enable_auto_commit=True, auto_commit_interval_ms=5000: while polling, the
\* consumer commits its position, i.e. the offset after the last message the
\* iterator handed out, whatever the handler did with it.
KafkaAutoCommit ==
    /\ kafkaCommitted < kafkaOffset
    /\ kafkaCommitted' = kafkaOffset
    /\ UNCHANGED <<videos, nextId, rawBucket, publicBucket, esIndex, kafkaTopic, kafkaOffset,
                   req, tasks, kafkaLog, response, auxVars>>

\* ------------------------------------------------ the ingestion specification
Next ==
    \/ \E r \in Reqs, u \in Users, f \in FileNames, s \in FileSizes, ok \in BOOLEAN :
          UploadBegin(r, u, f, s, ok)
    \/ \E r \in Reqs, ok \in BOOLEAN : UploadCreate(r, ok)
    \/ \E r \in Reqs, ok \in BOOLEAN : UploadSubmit(r, ok)
    \/ \E r \in Reqs, ok \in BOOLEAN : UploadReturn(r, ok)
    \/ \E r \in Reqs : UploadFinish(r)
    \/ \E u \in Users, v \in VideoIds, t \in {null, "t"},
          s \in valid_statuses \cup {null, "bogus"}, ok \in BOOLEAN : UpdateVideo(u, v, t, s, ok)
    \/ \E u \in Users, v \in VideoIds, ok \in BOOLEAN : DeleteVideo(u, v, ok)
    \/ KafkaConsume(TRUE)

Spec == Init /\ [][Next]_vars
\* ====================================================== video_transcode_task
\* video_transcode_task.delay(video_id, raw_object_name, user_id): a message
\* on the Celery queue video_transcode. Nothing in the repository sends it;
\* it is an entry point of the worker, called with any video id. The
\* quality is the default '720p' of the signature.
CelerySubmit(t, v, u) ==
    /\ tasks[t].st = "none"
    /\ \A q \in Tasks : q < t => tasks[q].st # "none"
    /\ tasks' = [tasks EXCEPT ![t] = [NoTask EXCEPT !.st = "queued", !.video_id = v,
                                                    !.user_id = u]]
    /\ UNCHANGED <<videos, nextId, rawBucket, publicBucket, esIndex, kafkaTopic,
                   kafkaOffset, req,
                   kafkaLog, kafkaCommitted, response, auxVars>>

\* video_transcode_task.delay(video_id, raw_object_name, user_id, quality):
\* the same message with the quality given by the caller, any string.
CelerySubmitQuality(t, v, u, quality) ==
    /\ tasks[t].st = "none"
    /\ \A q \in Tasks : q < t => tasks[q].st # "none"
    /\ tasks' = [tasks EXCEPT ![t] = [NoTask EXCEPT !.st = "queued", !.video_id = v,
                                                    !.user_id = u, !.quality = quality]]
    /\ UNCHANGED <<videos, nextId, rawBucket, publicBucket, esIndex, kafkaTopic,
                   kafkaOffset, req,
                   kafkaLog, kafkaCommitted, response, auxVars>>

Running == {t \in Tasks : tasks[t].st = "running"}

\* A free worker process takes the message; the task creates its temporary
\* directory (step 1) and enters stage 'downloading'. Nothing is checked or
\* locked per video id.
TaskStart(t) ==
    /\ tasks[t].st = "queued"
    /\ Cardinality(Running) < NumWorkers
    /\ tasks' = [tasks EXCEPT ![t].st = "running", ![t].stage = "downloading",
                              ![t].temp_dir = TRUE]
    /\ UNCHANGED <<videos, nextId, rawBucket, publicBucket, esIndex, kafkaTopic,
                   kafkaOffset, req,
                   kafkaLog, kafkaCommitted, response, auxVars>>

\* The finally block: shutil.rmtree(temp_dir) inside try/except Exception.
\* rmtree_ok = FALSE: rmtree raises (an OSError, or SoftTimeLimitExceeded
\* delivered while it runs); the except branch logs a warning and the
\* directory stays behind (leftover) when the execution is over.
cleanup(task, rmtree_ok) ==
    [NoTask EXCEPT !.video_id = task.video_id, !.user_id = task.user_id,
                   !.retries = task.retries, !.quality = task.quality,
                   !.leftover = task.leftover \/ (task.temp_dir /\ ~rmtree_ok)]

\* An exception leaves the try block: the handlers log and re-raise, finally
\* removes the temporary directory, and autoretry_for=(Exception,) with
\* max_retries re-queues the message (retries + 1) or, when the retries are
\* used up, marks the task FAILURE. No handler touches the Video row.
task_failed(task, rmtree_ok) ==
    IF task.retries < max_retries
    THEN [cleanup(task, rmtree_ok) EXCEPT !.st = "queued", !.retries = task.retries + 1]
    ELSE [cleanup(task, rmtree_ok) EXCEPT !.st = "failed"]

\* Steps 2-3: download of the raw object and the checks on the local file.
TaskDownload(t, ok, rmtree_ok) ==
    /\ tasks[t].st = "running" /\ tasks[t].stage = "downloading"
    /\ tasks' = [tasks EXCEPT ![t] = IF ok THEN [@ EXCEPT !.stage = "transcoding"]
                                     ELSE task_failed(@, rmtree_ok)]
    /\ UNCHANGED <<videos, nextId, rawBucket, publicBucket, esIndex, kafkaTopic,
                   kafkaOffset, req,
                   kafkaLog, kafkaCommitted, response, auxVars>>

\* get_quality_settings: the keys of settings_map; any other quality raises
\* ValueError.
settings_map == {"480p", "720p", "1080p"}

\* The task with a cover frame that must succeed: an ffmpeg.Error of the
\* cover step leaves the try block like the one of the transcode.
TaskTranscode_CoverFatal(t, ok, cover_ok, rmtree_ok) ==
    /\ tasks[t].st = "running" /\ tasks[t].stage = "transcoding"
    /\ tasks' = [tasks EXCEPT ![t] =
                   IF ok /\ cover_ok /\ tasks[t].quality \in settings_map
                   THEN [@ EXCEPT !.stage = "uploading", !.cover = TRUE]
                   ELSE task_failed(@, rmtree_ok)]
    /\ UNCHANGED <<videos, nextId, rawBucket, publicBucket, esIndex, kafkaTopic,
                   kafkaOffset, req,
                   kafkaLog, kafkaCommitted, response, auxVars>>

\* Steps 4-5: get_quality_settings (a ValueError for an unknown quality
\* leaves the try block like any exception), the ffmpeg transcode (an
\* ffmpeg.Error fails the task), then the cover frame (an ffmpeg.Error only
\* resets cover_file_path to None).
TaskTranscode(t, ok, cover_ok, rmtree_ok) ==
    /\ tasks[t].st = "running" /\ tasks[t].stage = "transcoding"
    /\ tasks' = [tasks EXCEPT ![t] = IF ok /\ tasks[t].quality \in settings_map THEN [@ EXCEPT !.stage = "uploading",
                                                          !.cover = cover_ok]
                                     ELSE task_failed(@, rmtree_ok)]
    /\ UNCHANGED <<videos, nextId, rawBucket, publicBucket, esIndex, kafkaTopic,
                   kafkaOffset, req,
                   kafkaLog, kafkaCommitted, response, auxVars>>

\* MinioService.generate_video_filename: video_{timestamp}_{uuid8}{ext}; only
\* the extension of the name passed in is used. n is the timestamp_uuid part.
generate_video_filename(original_filename, n) == n

\* MinioService.publish_video: the object name is
\* user_{user_id}/{generate_video_filename(filename)}; put_object overwrites.
publish_video(bucket, video_id, user_id, n) ==
    [bucket EXCEPT ![<<user_id, generate_video_filename(video_id, n)>>] = video_id]

\* Step 6: publish_video, then upload_video_cover when a cover exists.
\* outcome "video_failed": the video upload raises; "cover_failed": the
\* video object is written and the cover upload raises.
TaskUpload(t, n, outcome, rmtree_ok) ==
    /\ tasks[t].st = "running" /\ tasks[t].stage = "uploading"
    /\ outcome = "cover_failed" => tasks[t].cover
    /\ publicBucket' = IF outcome = "video_failed" THEN publicBucket
                       ELSE publish_video(publicBucket, tasks[t].video_id,
                                          tasks[t].user_id, n)
    /\ tasks' = [tasks EXCEPT ![t] =
                   IF outcome = "ok"
                   THEN [@ EXCEPT !.stage = "updating_database",
                                  !.obj = <<tasks[t].user_id,
                                            generate_video_filename(tasks[t].video_id, n)>>]
                   ELSE task_failed(@, rmtree_ok)]
    /\ UNCHANGED <<videos, nextId, rawBucket, esIndex, kafkaTopic, kafkaOffset, req,
                   kafkaLog, kafkaCommitted, response, auxVars>>

\* update_video_metadata: the row is loaded by id; play_url, cover_url (when
\* a cover was uploaded) and status = 'published' are set and committed.
update_video_metadata(row, obj, cover) ==
    [row EXCEPT !.play_url = obj,
                !.cover_url = IF cover THEN obj ELSE @,
                !.status = "published"]

\* Steps 7-8: the database update inside try/except Exception (a missing row
\* or a failed commit is logged and dropped), then the 'completed' result;
\* finally removes the temporary directory. db_ok = FALSE is also the run in
\* which SoftTimeLimitExceeded is raised inside this try block and dropped.
TaskUpdateDb(t, db_ok, rmtree_ok) ==
    /\ tasks[t].st = "running" /\ tasks[t].stage = "updating_database"
    /\ videos' = IF db_ok /\ Exists(tasks[t].video_id)
                 THEN [videos EXCEPT ![tasks[t].video_id] =
                          update_video_metadata(@, tasks[t].obj, tasks[t].cover)]
                 ELSE videos
    /\ tasks' = [tasks EXCEPT ![t] = [cleanup(@, rmtree_ok) EXCEPT !.st = "succeeded"]]
    /\ UNCHANGED <<nextId, rawBucket, publicBucket, esIndex, kafkaTopic, kafkaOffset, req,
                   kafkaLog, kafkaCommitted, response, auxVars>>

\* task_soft_time_limit: SoftTimeLimitExceeded is raised in the running task.
\* Outside the try block of step 7 it reaches except SoftTimeLimitExceeded,
\* which raises Exception; finally runs and autoretry re-queues the task.
TaskSoftTimeLimit(t, rmtree_ok) ==
    /\ tasks[t].st = "running"
    /\ tasks' = [tasks EXCEPT ![t] = task_failed(@, rmtree_ok)]
    /\ UNCHANGED <<videos, nextId, rawBucket, publicBucket, esIndex, kafkaTopic, kafkaOffset,
                   req, kafkaLog, kafkaCommitted, response, auxVars>>

\* task_time_limit: the pool process running the task is killed; no except
\* or finally block runs and the task is reported failed, not retried.
TaskHardTimeLimit(t) ==
    /\ tasks[t].st = "running"
    /\ tasks' = [tasks EXCEPT ![t].st = "killed"]
    /\ UNCHANGED <<videos, nextId, rawBucket, publicBucket, esIndex, kafkaTopic, kafkaOffset,
                   req, kafkaLog, kafkaCommitted, response, auxVars>>

\* --------------------------------------------------- the worker specification
\* Uploads of valid files with the infrastructure up, the update and delete
\* endpoints, and the Celery worker with every failure of its steps.
NextWorker ==
    \/ \E r \in {q \in Reqs : Cardinality(rawBucket) < MaxWorkerVideos},
          u \in Users, f \in GoodFileNames, s \in GoodFileSizes :
          UploadBegin(r, u, f, s, TRUE)
    \/ \E r \in Reqs : UploadCreate(r, TRUE)
    \/ \E r \in Reqs : UploadSubmit(r, TRUE)
    \/ \E r \in Reqs : UploadReturn(r, TRUE)
    \/ \E r \in Reqs : UploadFinish(r)
    \/ \E u \in Users, v \in VideoIds, s \in valid_statuses : UpdateVideo(u, v, null, s, TRUE)
    \/ \E u \in Users, v \in VideoIds : DeleteVideo(u, v, TRUE)
    \/ \E t \in Tasks, v \in VideoIds, u \in Users : CelerySubmit(t, v, u)
    \/ \E t \in Tasks : TaskStart(t)
    \/ \E t \in Tasks, ok \in BOOLEAN : TaskDownload(t, ok, TRUE)
    \/ \E t \in Tasks, ok \in BOOLEAN, c \in BOOLEAN : TaskTranscode(t, ok, c, TRUE)
    \/ \E t \in Tasks, n \in Nonces, o \in {"ok", "video_failed", "cover_failed"} :
          TaskUpload(t, n, o, TRUE)
    \/ \E t \in Tasks, ok \in BOOLEAN : TaskUpdateDb(t, ok, TRUE)

SpecWorker == Init /\ [][NextWorker]_vars
\* ------------------------------------------------- the pipeline specification
\* The whole path of one upload with every external call succeeding: valid
\* file, object store, index and broker up, download, transcode and uploads
\* of the worker succeeding. The steps of the handlers, of the Kafka consumer
\* thread and of the Celery worker are scheduled fairly; the arrival of an
\* upload request and a call of video_transcode_task.delay are not.
NextPipeline ==
    \/ \E r \in Reqs, u \in Users, f \in GoodFileNames, s \in GoodFileSizes :
          UploadBegin(r, u, f, s, TRUE)
    \/ \E r \in Reqs : UploadCreate(r, TRUE)
    \/ \E r \in Reqs : UploadSubmit(r, TRUE)
    \/ \E r \in Reqs : UploadReturn(r, TRUE)
    \/ \E r \in Reqs : UploadFinish(r)
    \/ KafkaConsume(TRUE)
    \/ \E t \in Tasks, v \in VideoIds, u \in Users : CelerySubmit(t, v, u)
    \/ \E t \in Tasks : TaskStart(t)
    \/ \E t \in Tasks : TaskDownload(t, TRUE, TRUE)
    \/ \E t \in Tasks, c \in BOOLEAN : TaskTranscode(t, TRUE, c, TRUE)
    \/ \E t \in Tasks, n \in Nonces : TaskUpload(t, n, "ok", TRUE)
    \/ \E t \in Tasks : TaskUpdateDb(t, TRUE, TRUE)

FairSpec ==
    /\ Init /\ [][NextPipeline]_vars
    /\ \A r \in Reqs : WF_vars(UploadCreate(r, TRUE))
    /\ \A r \in Reqs : WF_vars(UploadSubmit(r, TRUE))
    /\ \A r \in Reqs : WF_vars(UploadReturn(r, TRUE))
    /\ \A r \in Reqs : WF_vars(UploadFinish(r))
    /\ WF_vars(KafkaConsume(TRUE))
    /\ \A t \in Tasks : WF_vars(TaskStart(t))
    /\ \A t \in Tasks : WF_vars(TaskDownload(t, TRUE, TRUE))
    /\ \A t \in Tasks : WF_vars(\E c \in BOOLEAN : TaskTranscode(t, TRUE, c, TRUE))
    /\ \A t \in Tasks : WF_vars(\E n \in Nonces : TaskUpload(t, n, "ok", TRUE))
    /\ \A t \in Tasks : WF_vars(TaskUpdateDb(t, TRUE, TRUE))

\* ================================================== bulk_sync_videos_to_es
\* A video of the batch: prep_ok says whether video_to_es_document returns a
\* document for it (FALSE: it raises), item_ok whether the index applies its
\* operation when the bulk request is executed (status 200/201).
BatchVideo == [prep_ok : BOOLEAN, item_ok : BOOLEAN]

Batches == UNION { [1..n -> BatchVideo] : n \in 0..MaxBatch }

\* The videos that got their two entries in bulk_operations.
Prepared(batch) == {i \in 1..Len(batch) : batch[i].prep_ok}

\* The documents the index has written when the bulk request is over.
Written(batch, client_ok, bulk_raises) ==
    IF client_ok /\ ~bulk_raises
    THEN Cardinality({i \in Prepared(batch) : batch[i].item_ok})
    ELSE 0

\* bulk_sync_videos_to_es(videos): the counts it returns.
bulk_sync_videos_to_es(batch, client_ok, bulk_raises) ==
    IF ~client_ok
    THEN [success |-> 0, failed |-> Len(batch)]
    ELSE LET prep_failed == Len(batch) - Cardinality(Prepared(batch))
             applied == Cardinality({i \in Prepared(batch) : batch[i].item_ok})
             errors == applied < Cardinality(Prepared(batch))
         IN IF Prepared(batch) = {}
            THEN [success |-> 0, failed |-> prep_failed]
            ELSE IF bulk_raises
            THEN [success |-> 0, failed |-> prep_failed + (Len(batch) - 0)]
            ELSE IF errors
            THEN [success |-> applied,
                  failed |-> prep_failed + (Cardinality(Prepared(batch)) - applied)]
            ELSE [success |-> Len(batch), failed |-> prep_failed]

BulkCalls ==
    { [op |-> "bulk_sync", videos |-> b, client_ok |-> c, bulk_raises |-> x,
       out |-> None, written |-> 0] : b \in Batches, c \in BOOLEAN, x \in BOOLEAN }

InitBulk == InitPipeline /\ stat = 0 /\ statOps = [p \in StatOps |-> NoStatOp]
            /\ call \in BulkCalls

\* The call is made and returns.
BulkSync ==
    /\ call.op = "bulk_sync" /\ call.out = None
    /\ call' = [call EXCEPT
                   !.out = bulk_sync_videos_to_es(call.videos, call.client_ok,
                                                  call.bulk_raises),
                   !.written = Written(call.videos, call.client_ok, call.bulk_raises)]
    /\ UNCHANGED <<pipeVars, stat, statOps>>

SpecBulk == InitBulk /\ [][BulkSync]_vars

\* ============================================================ search_videos
\* Texts are lists of characters. '_' and '%' are the wildcards of LIKE.
CharLower(c) == IF c = "A" THEN "a" ELSE c

\* column.ilike(pattern): '%' matches any run of characters, '_' any one
\* character, every other character itself without regard to case.
RECURSIVE ilike(_, _)
ilike(text, pattern) ==
    IF pattern = <<>> THEN text = <<>>
    ELSE IF Head(pattern) = "%"
         THEN ilike(text, Tail(pattern)) \/ (text # <<>> /\ ilike(Tail(text), pattern))
         ELSE /\ text # <<>>
              /\ Head(pattern) = "_" \/ CharLower(Head(pattern)) = CharLower(Head(text))
              /\ ilike(Tail(text), Tail(pattern))

\* search_term = f"%{query_params.q}%"
search_term(q) == <<"%">> \o q \o <<"%">>

\* Ids in descending order (order_by created_at desc on autoincrement ids).
RECURSIVE IdsDesc(_)
IdsDesc(ids) ==
    IF ids = {} THEN <<>>
    ELSE LET m == CHOOSE x \in ids : \A y \in ids : y <= x
         IN <<m>> \o IdsDesc(ids \ {m})

\* The response item built from a row of the videos table.
SearchVideoResponse(db, id, highlight) ==
    [id |-> id, author_id |-> db[id].author_id, title |-> db[id].title,
     play_url |-> db[id].play_url, view_count |-> db[id].view_count,
     publish_time |-> db[id].publish_time, highlight |-> highlight]

SearchResponse(items, total, query) ==
    [videos |-> items, total |-> total, page |-> query.page,
     page_size |-> query.page_size,
     total_pages |-> (total + query.page_size - 1) \div query.page_size]

\* Title or description ILIKE %q% (a NULL description matches nothing).
TextMatch(row, q) ==
    \/ ilike(row.title, search_term(q))
    \/ row.description # None /\ ilike(row.description, search_term(q))

\* _fallback_db_search: published rows, the text condition when q is given,
\* the filters that are truthy, newest first, one page; total counts the
\* published rows under the text condition alone. A database error gives
\* the empty response.
fallback_db_search(db, query, db_ok) ==
    IF ~db_ok THEN SearchResponse(<<>>, 0, query)
    ELSE LET hit == {i \in DOMAIN db :
                       /\ db[i].status = "published"
                       /\ query.q # <<>> => TextMatch(db[i], query.q)
                       /\ query.author_id # 0 => db[i].author_id = query.author_id
                       /\ query.video_id # 0 => i = query.video_id
                       /\ query.start_time # 0 =>
                             (db[i].publish_time # None
                                /\ db[i].publish_time[1] >= query.start_time)
                       /\ query.end_time # 0 =>
                             (db[i].publish_time # None
                                /\ db[i].publish_time[1] <= query.end_time)}
             counted == {i \in DOMAIN db :
                           /\ db[i].status = "published"
                           /\ query.q # <<>> => TextMatch(db[i], query.q)}
             ordered == IdsDesc(hit)
             skip == (query.page - 1) * query.page_size
             last == IF skip + query.page_size < Len(ordered)
                     THEN skip + query.page_size ELSE Len(ordered)
             page == SubSeq(ordered, skip + 1, last)
         IN SearchResponse([k \in 1..Len(page) |-> SearchVideoResponse(db, page[k], None)],
                           Cardinality(counted), query)

\* The index-backed path with the response built from the rows in the order
\* the table returns them (by id) instead of the order of the hits.
index_search_TableOrder(db, query, es) ==
    LET video_ids == [k \in 1..Len(es.hits) |-> es.hits[k].id]
        rows == {video_ids[k] : k \in 1..Len(video_ids)} \cap DOMAIN db
        found == [k \in 1..Cardinality(rows) |->
                    IdsDesc(rows)[Cardinality(rows) + 1 - k]]
    IN IF video_ids = <<>> THEN SearchResponse(<<>>, 0, query)
       ELSE SearchResponse(
              [k \in 1..Len(found) |->
                 SearchVideoResponse(db, found[k],
                    (CHOOSE h \in {es.hits[j] : j \in 1..Len(es.hits)} :
                        h.id = found[k]).highlight)],
              es.total, query)

\* The index-backed path of search_videos: the ids of the hits in the order
\* of the index, the rows of these ids loaded from the table, the response
\* built in the order of the hits from the rows that exist.
index_search(db, query, es) ==
    LET video_ids == [k \in 1..Len(es.hits) |-> es.hits[k].id]
        found == SelectSeq(video_ids, LAMBDA id : id \in DOMAIN db)
    IN IF video_ids = <<>> THEN SearchResponse(<<>>, 0, query)
       ELSE SearchResponse(
              [k \in 1..Len(found) |->
                 SearchVideoResponse(db, found[k],
                    (CHOOSE h \in {es.hits[j] : j \in 1..Len(es.hits)} :
                        h.id = found[k]).highlight)],
              es.total, query)

\* search_videos: without a client, or with es_client.search raising on both
\* call forms, or with the table lookup of the index path raising, the
\* fallback answers.
search_videos(db, query, es, db_ok) ==
    IF ~es.client_ok \/ ~es.search_ok THEN fallback_db_search(db, query, db_ok)
    ELSE IF es.hits # <<>> /\ ~db_ok THEN fallback_db_search(db, query, db_ok)
    ELSE index_search(db, query, es)

\* The call is made and returns.
SearchVideos ==
    /\ call.op = "search" /\ call.out = None
    /\ call' = [call EXCEPT !.out = search_videos(call.db, call.query, call.es, call.db_ok)]
    /\ UNCHANGED <<pipeVars, stat, statOps>>

\* --------------------------------------------- the fallback specification
\* Searches with the index client missing or raising, on tables of rows
\* with different texts, authors, statuses and publish times.
Texts == { <<"a">>, <<"A", "b">>, <<"b">> }

FallbackRows ==
    [status : {"published", "pending"}, title : Texts, description : {None, <<"a">>},
     author_id : {1, 2}, publish_time : {None, <<7>>}, play_url : {None},
     view_count : {0}]

FallbackQueries ==
    { [q |-> q, author_id |-> f[1], video_id |-> f[2], start_time |-> f[3],
       end_time |-> f[4], page |-> pg, page_size |-> 1] :
         q \in {<<>>, <<"a">>, <<"_">>}, pg \in {1, 2},
         f \in { <<0, 0, 0, 0>>, <<1, 0, 0, 0>>, <<0, 2, 0, 0>>,
                 <<0, 0, 5, 0>>, <<0, 0, 0, 5>> } }

DownIndex ==
    { [client_ok |-> c, search_ok |-> FALSE, hits |-> <<>>, total |-> 0] : c \in BOOLEAN }

InitFallback ==
    /\ InitPipeline /\ stat = 0 /\ statOps = [p \in StatOps |-> NoStatOp]
    /\ call \in { [op |-> "search", db |-> d, query |-> qu, es |-> e, db_ok |-> ok,
                    out |-> None] :
                     d \in [1..MaxSearchRows -> FallbackRows], qu \in FallbackQueries,
                     e \in DownIndex, ok \in BOOLEAN }

SpecFallback == InitFallback /\ [][SearchVideos]_vars

\* ------------------------------------------- the index search specification
\* Searches answered by the index: the hits are ids in the order of the
\* index, some of rows that no longer exist, each with the view_count its
\* document stores and possibly a highlight.
IndexRows ==
    [status : {"published", "deleted"}, title : {<<"a">>}, description : {None},
     author_id : {1}, publish_time : {None}, play_url : {None, <<1>>},
     view_count : {0, 1}]

\* Lists of distinct ids of index documents.
HitIds ==
    { h \in UNION { [1..n -> 1..(MaxSearchRows + 1)] : n \in 0..(MaxSearchRows + 1) } :
        \A i, j \in 1..Len(h) : i # j => h[i] # h[j] }

IndexResults ==
    { [client_ok |-> TRUE, search_ok |-> TRUE,
       hits |-> [k \in 1..Len(h) |->
                   [id |-> h[k], view_count |-> 9,
                    highlight |-> IF k = 1 THEN hl ELSE None]],
       total |-> Len(h) + more] :
         h \in HitIds, hl \in {None, <<"a">>}, more \in {0, 1} }

InitIndex ==
    /\ InitPipeline /\ stat = 0 /\ statOps = [p \in StatOps |-> NoStatOp]
    /\ call \in { [op |-> "search", db |-> d,
                    query |-> [q |-> <<"a">>, author_id |-> 0, video_id |-> 0,
                               start_time |-> 0, end_time |-> 0, page |-> 1,
                               page_size |-> MaxSearchRows + 1],
                    es |-> e, db_ok |-> TRUE, out |-> None] :
                     d \in [1..MaxSearchRows -> IndexRows], e \in IndexResults }

SpecIndex == InitIndex /\ [][SearchVideos]_vars

\* ====================================================== counter increments
\* VideoCRUD.increment_view_count / increment_favorite_count /
\* increment_comment_count: one UPDATE videos SET c = c + 1 WHERE id = ...
\* executed by the database.
IncrementAtomic(p) ==
    /\ statOps[p].pc = "idle"
    /\ stat' = stat + 1
    /\ statOps' = [statOps EXCEPT ![p] = [@ EXCEPT !.pc = "done", !.via = "crud"]]
    /\ UNCHANGED <<pipeVars, call>>

\* The Celery task increment_video_stats(video_id, stat_type, increment=1),
\* first half: the row is selected into the session and
\* current_value = getattr(video, stat_type, 0) or 0 is read.
StatsRead(p) ==
    /\ statOps[p].pc = "idle"
    /\ statOps' = [statOps EXCEPT ![p] = [pc |-> "read", via |-> "task",
                                           current_value |-> stat]]
    /\ UNCHANGED <<pipeVars, stat, call>>

\* Second half: setattr(video, stat_type, current_value + increment) and
\* session.commit(), which writes the value computed in the worker.
StatsWrite(p) ==
    /\ statOps[p].pc = "read"
    /\ stat' = statOps[p].current_value + 1
    /\ statOps' = [statOps EXCEPT ![p].pc = "done"]
    /\ UNCHANGED <<pipeVars, call>>

NextCounters ==
    \/ \E p \in StatOps : IncrementAtomic(p)
    \/ \E p \in StatOps : StatsRead(p)
    \/ \E p \in StatOps : StatsWrite(p)

SpecCounters == Init /\ [][NextCounters]_vars

\* ------------------------------------------------- the endpoint specification
\* The three endpoints that write Video rows, with the search index up or
\* failing on each call; object store and broker are up.
NextApi ==
    \/ \E r \in {q \in Reqs : Cardinality(rawBucket) < MaxWorkerVideos},
          u \in Users, f \in GoodFileNames, s \in GoodFileSizes :
          UploadBegin(r, u, f, s, TRUE)
    \/ \E r \in Reqs, ok \in BOOLEAN : UploadCreate(r, ok)
    \/ \E r \in Reqs : UploadSubmit(r, TRUE)
    \/ \E r \in Reqs : UploadReturn(r, TRUE)
    \/ \E r \in Reqs : UploadFinish(r)
    \/ \E u \in Users, v \in VideoIds, t \in {null, "t"},
          s \in valid_statuses \cup {null, "bogus"}, ok \in BOOLEAN : UpdateVideo(u, v, t, s, ok)
    \/ \E u \in Users, v \in VideoIds, ok \in BOOLEAN : DeleteVideo(u, v, ok)

SpecApi == Init /\ [][NextApi]_vars

\* ----------------------------------------------------- the task specification
\* The Celery task alone, on the rows of uploaded videos: every failure of
\* its steps, both time limits, and a failing removal of its directory.
NextTask ==
    \/ \E r \in {q \in Reqs : Cardinality(rawBucket) < MaxWorkerVideos},
          u \in Users, f \in GoodFileNames, s \in GoodFileSizes :
          UploadBegin(r, u, f, s, TRUE)
    \/ \E r \in Reqs : UploadCreate(r, TRUE)
    \/ \E r \in Reqs : UploadSubmit(r, TRUE)
    \/ \E r \in Reqs : UploadReturn(r, TRUE)
    \/ \E r \in Reqs : UploadFinish(r)
    \/ \E t \in Tasks, v \in VideoIds, u \in Users : CelerySubmit(t, v, u)
    \/ \E t \in Tasks : TaskStart(t)
    \/ \E t \in Tasks, ok, rm \in BOOLEAN : TaskDownload(t, ok, rm)
    \/ \E t \in Tasks, ok, c, rm \in BOOLEAN : TaskTranscode(t, ok, c, rm)
    \/ \E t \in Tasks, n \in Nonces, o \in {"ok", "video_failed", "cover_failed"},
          rm \in BOOLEAN : TaskUpload(t, n, o, rm)
    \/ \E t \in Tasks, ok, rm \in BOOLEAN : TaskUpdateDb(t, ok, rm)
    \/ \E t \in Tasks, rm \in BOOLEAN : TaskSoftTimeLimit(t, rm)
    \/ \E t \in Tasks : TaskHardTimeLimit(t)

SpecTask == Init /\ [][NextTask]_vars

\* ------------------------------------------------- the consumer specification
\* Uploads that put jobs on the topic, the consumer loop with a handler that
\* returns or raises, and the periodic auto-commit of the consumer position.
NextConsumer ==
    \/ \E r \in Reqs, u \in Users, f \in GoodFileNames, s \in GoodFileSizes :
          UploadBegin(r, u, f, s, TRUE)
    \/ \E r \in Reqs : UploadCreate(r, TRUE)
    \/ \E r \in Reqs, ok \in BOOLEAN : UploadSubmit(r, ok)
    \/ \E r \in Reqs : UploadReturn(r, TRUE)
    \/ \E r \in Reqs : UploadFinish(r)
    \/ \E ok \in BOOLEAN : KafkaConsume(ok)
    \/ KafkaAutoCommit

SpecConsumer == Init /\ [][NextConsumer]_vars

\* ===================================================================== claims
Enqueued(v) == \E i \in 1..Len(kafkaTopic) : kafkaTopic[i].video_id = v

\* C1: for every Video row, status = 'published' holds exactly when play_url
\* is non-null, after any sequence of uploads, transcode runs, update
\* requests and soft deletes.
C1_PublishedIffPlayUrl ==
    \A v \in VideoIds :
        Exists(v) => (videos[v].status = "published" <=> videos[v].play_url # None)

\* The transitions section 4.3 of the specification allows.
AllowedTransitions ==
    { <<"pending", "processing">>, <<"processing", "published">>,
      <<"processing", "failed">>, <<"failed", "processing">>,
      <<"published", "deleted">>, <<"failed", "deleted">> }

\* C2: the status of a Video row changes only along pending->processing,
\* processing->published, processing->failed, failed->processing,
\* published->deleted and failed->deleted (a row is created as pending).
C2_OnlyAllowedTransitions ==
    [][\A v \in VideoIds :
          videos'[v].status # videos[v].status =>
             \/ videos[v].status = "none" /\ videos'[v].status = "pending"
             \/ <<videos[v].status, videos'[v].status>> \in AllowedTransitions]_vars

\* C3: every video whose job was put on the transcode topic is eventually
\* published with play_url set, when the consumer and the worker are
\* scheduled fairly and every step of the run succeeds.
C3_EnqueuedEventuallyPublished ==
    \A v \in VideoIds :
        Enqueued(v) ~> (videos[v].status = "published" /\ videos[v].play_url # None)

\* C4: when every attempt of the only transcode task of a video has failed
\* and the retries are used up, the row has status = 'failed' and a null
\* play_url.
C4_ExhaustedRetriesMarkFailed ==
    \A t \in Tasks :
        ( /\ tasks[t].st = "failed"
          /\ Exists(tasks[t].video_id)
          /\ \A q \in Tasks \ {t} : tasks[q].video_id # tasks[t].video_id )
        => ( /\ videos[tasks[t].video_id].status = "failed"
             /\ videos[tasks[t].video_id].play_url = None )

\* C5: no two executions of the transcode task for the same video id are in
\* progress at the same time.
C5_OneRunPerVideo ==
    \A t1, t2 \in Tasks :
        (t1 # t2 /\ tasks[t1].st = "running" /\ tasks[t2].st = "running")
        => tasks[t1].video_id # tasks[t2].video_id

PublicObjectsOf(v) == {k \in Keys : publicBucket[k] = v}

\* C6: after any number of runs of the transcode task for a video id the
\* public bucket holds at most one transcoded video object of that video.
C6_OnePublicObjectPerVideo ==
    \A v \in VideoIds : Exists(v) => Cardinality(PublicObjectsOf(v)) <= 1

\* C7: once the status of a Video row is 'deleted' it never changes again.
C7_DeletedIsTerminal ==
    [][\A v \in VideoIds :
          videos[v].status = "deleted" => videos'[v].status = "deleted"]_vars

\* C8: every TranscodeJob message on the topic carries the video_id of a
\* Video row that exists (the row is committed before the job is sent).
C8_JobsReferenceExistingVideo ==
    \A i \in 1..Len(kafkaTopic) :
        /\ Exists(kafkaTopic[i].video_id)
        /\ videos[kafkaTopic[i].video_id].status # "none"

\* A job of an existing video waits on the topic, not yet consumed.
C8_Witness ==
    /\ Len(kafkaTopic) > kafkaOffset
    /\ Exists(kafkaTopic[Len(kafkaTopic)].video_id)

\* C9: a failed queue submission leaves the videos table as it is (the row
\* of the request stays stored, pending unless another request changed it),
\* the handler goes on to its return, and its response is the success
\* response with the video id; the only error it can still answer is that of
\* the presigned-URL call, never that of the submission.
C9_EnqueueFailureNotPropagated ==
    [][\A r \in Reqs :
          /\ (req[r].pc = "submit" /\ req'[r].task_id = "failed") =>
                /\ videos' = videos /\ nextId' = nextId
                /\ Exists(req[r].video_id)
                /\ req'[r].pc = "presign"
                /\ req'[r].video_id = req[r].video_id
          /\ (req[r].pc = "presign" /\ req[r].task_id = "failed" /\ req'[r].pc # "presign") =>
                /\ videos' = videos /\ nextId' = nextId
                /\ Exists(req[r].video_id)
                /\ \/ req'[r].pc = "done" /\ req'[r].response = "success"
                   \/ req'[r].pc = "error" /\ req'[r].response = "500:get_file_url"]_vars

\* An upload whose submission failed has answered success, its row pending.
C9_Witness ==
    \E r \in Reqs :
        /\ req[r].pc = "done" /\ req[r].task_id = "failed"
        /\ req[r].response = "success"
        /\ videos[req[r].video_id].status = "pending"
        /\ ~Enqueued(req[r].video_id)

\* The uploads the validation has to refuse.
Invalid(filename, size) ==
    size = 0 \/ size > max_size \/ file_ext(filename) \notin allowed_formats

\* C10: an upload whose file is empty, larger than 500MB or of an extension
\* outside the allow-list is answered 400 by the step that receives it, and
\* that step stores no raw object, creates no row, attempts no index upsert
\* and sends no job; the request does nothing afterwards.
C10_RejectedBeforeSideEffects ==
    [][\A r \in Reqs :
          /\ (req[r].pc = "idle" /\ req'[r].pc # "idle"
                /\ Invalid(req'[r].filename, req'[r].size)) =>
                /\ req'[r].pc = "rejected" /\ req'[r].response = "400"
                /\ req'[r].raw = None /\ req'[r].video_id = 0
                /\ ~req'[r].es_attempted /\ req'[r].task_id = "none"
                /\ UNCHANGED <<rawBucket, videos, nextId, esIndex, kafkaTopic>>
          /\ (req[r].pc = "rejected" /\ req'[r] # req[r]) =>
                /\ req'[r] = NoReq
                /\ UNCHANGED <<rawBucket, videos, nextId, esIndex, kafkaTopic>>]_vars

\* An oversized file of an allowed format has been refused.
C10_Witness ==
    \E r \in Reqs :
        /\ req[r].pc = "rejected" /\ req[r].response = "400"
        /\ req[r].size > max_size
        /\ file_ext(req[r].filename) \in allowed_formats

\* C11: a transcode job whose handling attempt failed is not given up with
\* its offset committed: as long as no attempt on the message has succeeded,
\* the committed offset of the consumer group stays in front of it, so that
\* the message is delivered again. (The consumer takes every message once;
\* an entry 'failed' of the log is the only attempt there ever is.)
C11_FailedJobNotCommitted ==
    \A i \in 1..Len(kafkaLog) : kafkaLog[i] = "failed" => kafkaCommitted < i

\* C12: an execution of the transcode task that has left through its return
\* or through an exception (of the download, transcode, upload or database
\* step, or of the soft time limit) has left no temporary directory behind.
C12_TempDirRemovedOnExit ==
    \A t \in Tasks :
        tasks[t].st \in {"queued", "succeeded", "failed"}
            => ~tasks[t].temp_dir /\ ~tasks[t].leftover

\* C13: publish_time is set at the transition to 'published' and kept from
\* then on, so every Video row with status = 'published' has a non-null
\* publish_time.
C13_PublishedHasPublishTime ==
    \A v \in VideoIds :
        (Exists(v) /\ videos[v].status = "published") => videos[v].publish_time # None

\* C14: with the index reachable, a video the transcode worker has set to
\* 'published' eventually has an index document with status = 'published'
\* (and so matches the status filter of the index-backed search).
C14_PublishedReachesIndex ==
    \A v \in VideoIds :
        (videos[v].status = "published" /\ videos[v].play_url # None)
            ~> (esIndex[v] = "published")

\* C15: with the index failing, upload_video still creates the pending row
\* and goes on to the queue submission without an error response,
\* update_video commits the same row as with the index up and answers 200,
\* and delete_video sets status = 'deleted' and answers 200.
C15_IndexOutageIsolated ==
    [][ /\ \A r \in Reqs :
              UploadCreate(r, FALSE) =>
                 /\ videos'[req'[r].video_id].status = "pending"
                 /\ nextId' = nextId + 1
                 /\ req'[r].pc = "submit" /\ req'[r].response = "none"
        /\ \A u \in Users, v \in VideoIds, t \in {null, "t"},
              st \in valid_statuses \cup {null} :
              UpdateVideo(u, v, t, st, FALSE) =>
                 /\ videos' = [videos EXCEPT ![v].status = IF st # null THEN st ELSE @]
                 /\ response' = [op |-> "update", code |-> 200]
        /\ \A u \in Users, v \in VideoIds :
              DeleteVideo(u, v, FALSE) =>
                 /\ videos' = [videos EXCEPT ![v].status = "deleted"]
                 /\ response' = [op |-> "delete", code |-> 200] ]_vars

\* An update has been answered 200 and its row is 'processing' while the
\* index, failing since the upload, holds no document of the video.
C15_Witness ==
    /\ response = [op |-> "update", code |-> 200]
    /\ \E v \in VideoIds :
          Exists(v) /\ videos[v].status = "processing" /\ esIndex[v] = "absent"

\* C16: for a batch of N videos bulk_sync_videos_to_es returns counts with
\* success + failed = N, success the number of documents written to the
\* index and failed the number not written, whether documents fail their
\* preparation, the bulk response reports item errors, or the bulk call
\* raises.
C16_BulkCountsAccurate ==
    (call.op = "bulk_sync" /\ call.out # None) =>
        /\ call.out.success + call.out.failed = Len(call.videos)
        /\ call.out.success = call.written
        /\ call.out.failed = Len(call.videos) - call.written

\* The text contains the term as a substring, without regard to case.
Contains(text, q) ==
    \E i \in 1..(Len(text) - Len(q) + 1) :
        \A k \in 1..Len(q) : CharLower(text[i + k - 1]) = CharLower(q[k])

\* C17: when the index client cannot be obtained or raises, search_videos
\* answers with the fields videos, total, page, page_size and total_pages,
\* every item has highlight = null, and every item is a published row whose
\* title or description contains the search term and which satisfies the
\* filters of the request.
C17_FallbackResult ==
    (call.op = "search" /\ call.out # None
       /\ (~call.es.client_ok \/ ~call.es.search_ok)) =>
        /\ DOMAIN call.out = {"videos", "total", "page", "page_size", "total_pages"}
        /\ call.out.page = call.query.page /\ call.out.page_size = call.query.page_size
        /\ \A k \in 1..Len(call.out.videos) :
             LET item == call.out.videos[k]
                 row == call.db[item.id]
             IN /\ item.highlight = None
                /\ row.status = "published"
                /\ call.query.q # <<>> =>
                      \/ Contains(row.title, call.query.q)
                      \/ row.description # None /\ Contains(row.description, call.query.q)
                /\ call.query.author_id # 0 => row.author_id = call.query.author_id
                /\ call.query.video_id # 0 => item.id = call.query.video_id
                /\ call.query.start_time # 0 =>
                      (row.publish_time # None /\ row.publish_time[1] >= call.query.start_time)
                /\ call.query.end_time # 0 =>
                      (row.publish_time # None /\ row.publish_time[1] <= call.query.end_time)

\* Position of an id in the list of hits of the index.
HitPos(id) == CHOOSE j \in 1..Len(call.es.hits) : call.es.hits[j].id = id

\* C18: on the index-backed path the videos of the response are the hits of
\* the index whose rows exist, each once and in the order of the hits, and
\* play_url and the counter of every item are those of the row in the table,
\* not those stored in the index.
C18_IndexOrderAndLiveFields ==
    (call.op = "search" /\ call.out # None /\ call.es.client_ok /\ call.es.search_ok
       /\ call.db_ok) =>
        LET out == call.out.videos
        IN /\ {out[k].id : k \in 1..Len(out)}
                = {call.es.hits[j].id : j \in 1..Len(call.es.hits)} \cap DOMAIN call.db
           /\ \A k, l \in 1..Len(out) :
                 k < l => HitPos(out[k].id) < HitPos(out[l].id)
           /\ \A k \in 1..Len(out) :
                 /\ out[k].play_url = call.db[out[k].id].play_url
                 /\ out[k].view_count = call.db[out[k].id].view_count

\* The index ranked video 2 before video 1 and named a row that is gone;
\* the response has the two rows in that order with the values of the table.
C18_Witness ==
    /\ call.op = "search" /\ call.out # None /\ call.es.client_ok /\ call.es.search_ok
    /\ Len(call.es.hits) = 3
    /\ Len(call.out.videos) = 2
    /\ call.out.videos[1].id = 2 /\ call.out.videos[2].id = 1
    /\ call.out.videos[1].view_count # call.es.hits[1].view_count

\* C19: when k increment operations on one counter of a video, issued
\* through any increment operation of the code base and interleaved in any
\* way, have all completed, the counter is its initial value plus k.
C19_NoLostIncrement ==
    (\A p \in StatOps : statOps[p].pc = "done") => stat = MaxIncrements

\* C20: deleting a published video sets its status to 'deleted' and removes
\* its index document; deleting the same video a second time leaves both
\* the Video row and the index unchanged and is answered without an error.
C20_DeleteRemovesAndIsIdempotent ==
    [][ \A u \in Users, v \in VideoIds, ok \in BOOLEAN :
          DeleteVideo(u, v, ok) =>
             /\ videos[v].status = "published" =>
                   /\ videos'[v].status = "deleted"
                   /\ esIndex'[v] = "absent"
                   /\ response' = [op |-> "delete", code |-> 200]
             /\ videos[v].status = "deleted" =>
                   /\ videos' = videos
                   /\ esIndex' = esIndex
                   /\ response' = [op |-> "delete", code |-> 200] ]_vars

\* C20, amended: deleting a published video sets its status to 'deleted',
\* is answered 200, and removes its index document when the index call
\* succeeds; a second delete of the same video leaves the Video row
\* unchanged, is answered 200, and leaves the index unchanged when the
\* document is already gone.
C20_DeleteIdempotentWhenIndexUp ==
    [][ \A u \in Users, v \in VideoIds, ok \in BOOLEAN :
          DeleteVideo(u, v, ok) =>
             /\ videos[v].status = "published" =>
                   /\ videos'[v].status = "deleted"
                   /\ ok => esIndex'[v] = "absent"
                   /\ ~ok => esIndex' = esIndex
                   /\ response' = [op |-> "delete", code |-> 200]
             /\ videos[v].status = "deleted" =>
                   /\ videos' = videos
                   /\ esIndex[v] = "absent" => esIndex' = esIndex
                   /\ ok => esIndex'[v] = "absent"
                   /\ response' = [op |-> "delete", code |-> 200] ]_vars

\* A delete has been answered 200 for a video whose row is 'deleted' and
\* whose document is gone from the index.
C20_Witness ==
    /\ response = [op |-> "delete", code |-> 200]
    /\ \E v \in VideoIds :
          Exists(v) /\ videos[v].status = "deleted" /\ esIndex[v] = "absent"

\* ===================================================== delete_video_from_es
\* The text of an exception, as a list of characters.
ToLower(c) == CASE c = "A" -> "a" [] c = "C" -> "c" [] c = "N" -> "n" [] OTHER -> c

\* str.lower()
lower(text) == [i \in 1..Len(text) |-> ToLower(text[i])]

\* needle in text
InText(needle, text) ==
    \E i \in 0..(Len(text) - Len(needle)) :
        \A j \in 1..Len(needle) : text[i + j] = needle[j]

not_found == <<"n", "o", "t", "_", "f", "o", "u", "n", "d">>

\* es_client.delete(index, id): the exception it raises (None: it returns).
\* A delete of an id without a document is answered 404 with result
\* 'not_found', which the client raises as NotFoundError carrying that
\* response; ok = FALSE is a client that cannot be built or cannot reach
\* the index.
NotFoundErrorText == <<"N", "o", "t", "F", "(", "4", "0", "4", ",">> \o not_found \o <<")">>
ConnectionErrorText == <<"C", "o", "n", "n", "E", "r", "r">>

es_client_delete(idx, v, ok) ==
    IF ~ok THEN ConnectionErrorText
    ELSE IF idx[v] = "absent" THEN NotFoundErrorText
    ELSE None

\* delete_video_from_es answering False for a document that is not there.
delete_video_from_es_returns_NotFoundFails(idx, v, ok) ==
    es_client_delete(idx, v, ok) = None

\* The value delete_video_from_es returns.
delete_video_from_es_returns(idx, v, ok) ==
    LET e == es_client_delete(idx, v, ok)
    IN IF e = None THEN TRUE
       ELSE InText(not_found, lower(e))

DocStates == valid_statuses \cup {"absent"}

\* A call sequence of delete_video_from_es(video_id) on an index in any
\* state: idx is the index, before the document the id had at the start.
EsDeleteCalls ==
    { [op |-> "delete_video_from_es", video_id |-> v, idx |-> idx,
       before |-> idx[v], results |-> <<>>] :
         idx \in [VideoIds -> DocStates], v \in VideoIds }

InitEsDelete == InitPipeline /\ stat = 0 /\ statOps = [p \in StatOps |-> NoStatOp]
                /\ call \in EsDeleteCalls

\* One call of delete_video_from_es(video_id); at most two in a row.
EsDelete(ok) ==
    /\ call.op = "delete_video_from_es" /\ Len(call.results) < 2
    /\ call' = [call EXCEPT
                   !.idx = delete_video_from_es(call.idx, call.video_id, ok),
                   !.results = Append(@, delete_video_from_es_returns(
                                             call.idx, call.video_id, ok))]
    /\ UNCHANGED <<pipeVars, stat, statOps>>

NextEsDelete == \E ok \in BOOLEAN : EsDelete(ok)

SpecEsDelete == InitEsDelete /\ [][NextEsDelete]_vars

\* C21: with the index answering, delete_video_from_es returns True both
\* for an id that had a document and for an id that had none, the index
\* holds no document of the id afterwards, and a second call returns the
\* same value and leaves the index as the first call left it.
C21_IndexDeleteIdempotent ==
    [][ EsDelete(TRUE) =>
          /\ call'.results[Len(call'.results)] = TRUE
          /\ call'.idx[call.video_id] = "absent"
          /\ \A w \in VideoIds : w # call.video_id => call'.idx[w] = call.idx[w]
          /\ (Len(call.results) = 1 /\ call.results[1] = TRUE) =>
                call'.idx = call.idx ]_vars

\* Two calls in a row on an id that had a document have both returned True
\* and the index holds no document of the id.
C21_Witness ==
    /\ call.op = "delete_video_from_es"
    /\ call.before # "absent"
    /\ call.results = <<TRUE, TRUE>>
    /\ call.idx[call.video_id] = "absent"

\* ======================================================= calculate_hot_score
\* A score is the fraction num / den. The weights 0.5, 2.0 and 1.5 of the
\* source are counted in halves, so that the sum of the weighted counters is
\* a whole number of halves and the division by 1000 has the denominator
\* 2 * 1000.
view_weight_halves == 1
favorite_weight_halves == 4
comment_weight_halves == 3
score_divisor == 1000

\* calculate_hot_score with the three counters weighted alike.
calculate_hot_score_EqualWeights(view_count, favorite_count, comment_count) ==
    [num |-> view_count + favorite_count + comment_count,
     den |-> 2 * score_divisor]

calculate_hot_score(view_count, favorite_count, comment_count) ==
    [num |-> view_count * view_weight_halves
               + favorite_count * favorite_weight_halves
               + comment_count * comment_weight_halves,
     den |-> 2 * score_divisor]

\* A counter column is None or <<n>>; this is 'column or 0'.
or_zero(x) == IF x = None THEN 0 ELSE x[1]

\* hot_score of the document video_to_es_document builds for an upsert
video_to_es_document_hot_score(video) ==
    calculate_hot_score(or_zero(video.view_count), or_zero(video.favorite_count),
                        or_zero(video.comment_count))

\* hot_score of the partial document refresh_all_video_hot_score sends
refresh_hot_score(row) ==
    calculate_hot_score(or_zero(row.view_count), or_zero(row.favorite_count),
                        or_zero(row.comment_count))

CounterValues == {None, <<0>>, <<1>>, <<5>>, <<10>>, <<1000>>}

HotScoreCalls ==
    { [op |-> "hot_score", view_count |-> v, favorite_count |-> f, comment_count |-> c,
       upsert |-> None, refresh |-> None] :
         v \in CounterValues, f \in CounterValues, c \in CounterValues }

InitHotScore == InitPipeline /\ stat = 0 /\ statOps = [p \in StatOps |-> NoStatOp]
                /\ call \in HotScoreCalls

\* An upsert builds the document of the row.
HotScoreUpsert ==
    /\ call.op = "hot_score" /\ call.upsert = None
    /\ call' = [call EXCEPT !.upsert = video_to_es_document_hot_score(call)]
    /\ UNCHANGED <<pipeVars, stat, statOps>>

\* The refresh job computes the score of the row.
HotScoreRefresh ==
    /\ call.op = "hot_score" /\ call.refresh = None
    /\ call' = [call EXCEPT !.refresh = refresh_hot_score(call)]
    /\ UNCHANGED <<pipeVars, stat, statOps>>

NextHotScore == HotScoreUpsert \/ HotScoreRefresh

SpecHotScore == InitHotScore /\ [][NextHotScore]_vars

\* 10000 * score = 5 * view + 20 * favorite + 15 * comment, a missing
\* counter counted as 0
HotScoreIs(score, row) ==
    10000 * score.num
        = score.den * (5 * or_zero(row.view_count) + 20 * or_zero(row.favorite_count)
                         + 15 * or_zero(row.comment_count))

\* C22: the hot score of an upsert and the hot score of the refresh job both
\* satisfy 10000 * hot_score = 5 * view + 20 * favorite + 15 * comment
\* (missing counters counted as 0), hence are equal for the same row; for
\* view = 1000, favorite = 10, comment = 5 the score is 0.5275.
C22_HotScoreFormula ==
    /\ call.op = "hot_score" /\ call.upsert # None => HotScoreIs(call.upsert, call)
    /\ call.op = "hot_score" /\ call.refresh # None => HotScoreIs(call.refresh, call)
    /\ (call.op = "hot_score" /\ call.upsert # None /\ call.refresh # None)
          => call.upsert.num * call.refresh.den = call.refresh.num * call.upsert.den
    /\ (/\ call.op = "hot_score" /\ call.upsert # None
        /\ call.view_count = <<1000>> /\ call.favorite_count = <<10>>
        /\ call.comment_count = <<5>>)
          => 10000 * call.upsert.num = 5275 * call.upsert.den

\* Both scores have been computed for view = 1000, favorite = 10, comment = 5.
C22_Witness ==
    /\ call.op = "hot_score" /\ call.upsert # None /\ call.refresh # None
    /\ call.view_count = <<1000>> /\ call.favorite_count = <<10>>
    /\ call.comment_count = <<5>>

\* ------------------------------------------------ the quality specification
\* Transcode tasks submitted with a quality of the caller's choosing, one of
\* the tiers of settings_map or a tier that is not defined; object store
\* and database are up, download and ffmpeg may fail.
Qualities == settings_map \cup {"4k"}

NextQuality ==
    \/ \E t \in Tasks, v \in VideoIds, u \in Users, q \in Qualities :
          CelerySubmitQuality(t, v, u, q)
    \/ \E t \in Tasks : TaskStart(t)
    \/ \E t \in Tasks, ok \in BOOLEAN : TaskDownload(t, ok, TRUE)
    \/ \E t \in Tasks, ok, c \in BOOLEAN : TaskTranscode(t, ok, c, TRUE)
    \/ \E t \in Tasks, n \in Nonces : TaskUpload(t, n, "ok", TRUE)
    \/ \E t \in Tasks : TaskUpdateDb(t, TRUE, TRUE)

SpecQuality == Init /\ [][NextQuality]_vars

\* C23: the execution of a transcode task whose quality is none of 480p,
\* 720p, 1080p ends at get_quality_settings with the task failed for good:
\* the task is not queued again and its retry count does not grow.
C23_UnknownTierNotRetried ==
    [][ \A t \in Tasks, ok, c \in BOOLEAN :
          (TaskTranscode(t, ok, c, TRUE) /\ tasks[t].quality \notin settings_map)
              => /\ tasks'[t].st = "failed"
                 /\ tasks'[t].retries = tasks[t].retries ]_vars

\* ------------------------------------------------ the publish specification
\* One upload and the transcode tasks of its video, with ffmpeg able to fail
\* on the cover frame, the cover upload able to fail, and the database able
\* to fail at the update of the row; downloads and the transcode succeed.
NextPublish ==
    \/ \E r \in {q \in Reqs : Cardinality(rawBucket) < MaxWorkerVideos},
          u \in Users, f \in GoodFileNames, s \in GoodFileSizes :
          UploadBegin(r, u, f, s, TRUE)
    \/ \E r \in Reqs : UploadCreate(r, TRUE)
    \/ \E r \in Reqs : UploadSubmit(r, TRUE)
    \/ \E r \in Reqs : UploadReturn(r, TRUE)
    \/ \E r \in Reqs : UploadFinish(r)
    \/ \E t \in Tasks, v \in VideoIds, u \in Users : CelerySubmit(t, v, u)
    \/ \E t \in Tasks : TaskStart(t)
    \/ \E t \in Tasks : TaskDownload(t, TRUE, TRUE)
    \/ \E t \in Tasks, c \in BOOLEAN : TaskTranscode(t, TRUE, c, TRUE)
    \/ \E t \in Tasks, n \in Nonces, o \in {"ok", "cover_failed"} : TaskUpload(t, n, o, TRUE)
    \/ \E t \in Tasks, ok \in BOOLEAN : TaskUpdateDb(t, ok, TRUE)

SpecPublish == Init /\ [][NextPublish]_vars

\* C24: when the cover frame fails, the task goes on to the upload without
\* failing or being retried; its video object is uploaded, and the update
\* of the row sets play_url to that object and status to 'published',
\* leaves cover_url as it was, and the task ends succeeded.
C24_CoverFailureNonFatal ==
    [][ \A t \in Tasks :
          /\ TaskTranscode(t, TRUE, FALSE, TRUE) =>
                /\ tasks'[t] = [tasks[t] EXCEPT !.stage = "uploading"]
                /\ ~tasks'[t].cover
          /\ \A n \in Nonces :
                (TaskUpload(t, n, "ok", TRUE) /\ ~tasks[t].cover) =>
                   /\ tasks'[t].stage = "updating_database"
                   /\ tasks'[t].retries = tasks[t].retries
                   /\ publicBucket'[tasks'[t].obj] = tasks[t].video_id
          /\ (/\ TaskUpdateDb(t, TRUE, TRUE)
              /\ ~tasks[t].cover /\ Exists(tasks[t].video_id)) =>
                /\ videos'[tasks[t].video_id].status = "published"
                /\ videos'[tasks[t].video_id].play_url = tasks[t].obj
                /\ videos'[tasks[t].video_id].cover_url
                     = videos[tasks[t].video_id].cover_url
                /\ tasks'[t].st = "succeeded"
                /\ tasks'[t].retries = tasks[t].retries ]_vars

\* A task whose cover frame failed has succeeded without a retry, and its
\* video is published with a play_url and no cover_url.
C24_Witness ==
    \E t \in Tasks :
        /\ tasks[t].st = "succeeded" /\ tasks[t].retries = 0
        /\ Exists(tasks[t].video_id)
        /\ videos[tasks[t].video_id].status = "published"
        /\ videos[tasks[t].video_id].play_url # None
        /\ videos[tasks[t].video_id].cover_url = None

\* ============================================== refresh_all_video_hot_score
MaxRefreshRows == 2  \* rows of the videos table a refresh run starts from
RefreshIds == 1..MaxRefreshRows

\* The names app/db/database.py defines or imports, and the methods of
\* VideoCRUD: what 'from app.db.database import X' and 'video_crud.m' find.
database_names ==
    {"logging", "AsyncSession", "create_async_engine", "async_sessionmaker", "text",
     "declarative_base", "settings", "logger", "engine", "AsyncSessionLocal", "Base",
     "init_db", "close_db", "get_db"}
VideoCRUD_methods ==
    {"get_by_id", "get_by_id_and_author", "create", "update", "delete", "list_videos",
     "count_videos", "increment_view_count", "increment_comment_count",
     "decrement_comment_count", "increment_favorite_count", "decrement_favorite_count"}

\* The rows of the published videos, in the order of their ids. VideoCRUD
\* has no method of this name; this is the query the job's docstring
\* describes (all videos with status 'published').
RECURSIVE get_all_published_videos_from(_, _)
get_all_published_videos_from(db, id) ==
    IF id > MaxRefreshRows THEN <<>>
    ELSE (IF db[id].status = "published" THEN <<id>> ELSE <<>>)
            \o get_all_published_videos_from(db, id + 1)

get_all_published_videos(db) == get_all_published_videos_from(db, 1)

\* es_client.update(id, body = {"doc": ...}) with a full document and
\* doc_as_upsert: a document is created for an id that has none.
es_update_Upsert(idx, id, row, ok) ==
    IF ~ok THEN [raised |-> TRUE, idx |-> idx]
    ELSE [raised |-> FALSE,
          idx |-> [idx EXCEPT ![id] =
                     [status |-> row.status, view_count |-> or_zero(row.view_count),
                      hot_score |-> video_to_es_document_hot_score(row),
                      updated_at |-> row.updated_at]]]

\* es_client.update(index, id, body = {"doc": {"hot_score", "updated_at"}}):
\* a partial update merges the two fields into the stored document; for an
\* id without a document the index answers 404 (document missing) and the
\* client raises; ok = FALSE: the call raises for any other reason.
es_update(idx, id, row, ok) ==
    IF ~ok \/ idx[id] = None THEN [raised |-> TRUE, idx |-> idx]
    ELSE [raised |-> FALSE,
          idx |-> [idx EXCEPT ![id] =
                     [@ EXCEPT !.hot_score = refresh_hot_score(row),
                               !.updated_at = row.updated_at]]]

\* The loop over published_videos: each row inside its own try/except,
\* counting success_count and failed_count. es_fails: the ids whose update
\* call raises.
RECURSIVE refresh_loop(_, _, _, _)
refresh_loop(rows, db, st, es_fails) ==
    IF rows = <<>> THEN st
    ELSE LET id == Head(rows)
             r == es_update(st.idx, id, db[id], id \notin es_fails)
         IN refresh_loop(Tail(rows), db,
                         [idx |-> r.idx,
                          attempted |-> st.attempted \cup {id},
                          success |-> st.success + (IF r.raised THEN 0 ELSE 1),
                          failed |-> st.failed + (IF r.raised THEN 1 ELSE 0)],
                         es_fails)

\* The body of the task from the rows on: the early return of an empty
\* list, the loop, and the report returned.
refresh_body(published_videos, db, idx, es_fails) ==
    IF published_videos = <<>>
    THEN [raised |-> "none", db |-> db, idx |-> idx, attempted |-> {},
          report |-> [status |-> "success", total |-> 0]]
    ELSE LET st == refresh_loop(published_videos, db,
                                [idx |-> idx, attempted |-> {}, success |-> 0,
                                 failed |-> 0], es_fails)
         IN [raised |-> "none", db |-> db, idx |-> st.idx, attempted |-> st.attempted,
             report |-> [status |-> "success", total |-> Len(published_videos),
                         success |-> st.success, failed |-> st.failed]]

\* One run of the task as the files define it. The module imports
\* async_session_maker from app.db.database and fetch_videos calls
\* video_crud.get_all_published_videos; a name that is not defined raises
\* (ImportError when the module is loaded, AttributeError inside the try
\* block, which logs and re-raises), before any row is read.
refresh_all_video_hot_score(db, idx, es_fails) ==
    IF "async_session_maker" \notin database_names
    THEN [raised |-> "ImportError", db |-> db, idx |-> idx, attempted |-> {},
          report |-> None]
    ELSE IF "get_all_published_videos" \notin VideoCRUD_methods
    THEN [raised |-> "AttributeError", db |-> db, idx |-> idx, attempted |-> {},
          report |-> None]
    ELSE refresh_body(get_all_published_videos(db), db, idx, es_fails)

RefreshRows ==
    [status : {"published", "pending", "deleted"},
     view_count : {None, <<0>>, <<1000>>}, favorite_count : {<<10>>},
     comment_count : {None}, updated_at : {2}]

\* A document written by an earlier upsert, its score not yet refreshed.
RefreshDocs ==
    {None, [status |-> "published", view_count |-> 0,
            hot_score |-> calculate_hot_score(0, 0, 0), updated_at |-> 1]}

RefreshCalls ==
    { [op |-> "refresh", db |-> db, idx |-> idx, es_fails |-> f, out |-> None] :
         db \in [RefreshIds -> RefreshRows], idx \in [RefreshIds -> RefreshDocs],
         f \in SUBSET RefreshIds }

InitRefresh == InitPipeline /\ stat = 0 /\ statOps = [p \in StatOps |-> NoStatOp]
               /\ call \in RefreshCalls

\* The beat schedule sends the task and a worker runs it.
RefreshRun ==
    /\ call.op = "refresh" /\ call.out = None
    /\ call' = [call EXCEPT !.out = refresh_all_video_hot_score(call.db, call.idx,
                                                                call.es_fails)]
    /\ UNCHANGED <<pipeVars, stat, statOps>>

SpecRefreshJob == InitRefresh /\ [][RefreshRun]_vars

PublishedIds(db) == {id \in RefreshIds : db[id].status = "published"}

\* C25: a run of the refresh job over N published videos attempts the index
\* update of each of them, whatever updates fail, and reports total = N and
\* success + failed = N.
C25_RefreshCoversEveryVideo ==
    (call.op = "refresh" /\ call.out # None) =>
        LET N == Cardinality(PublishedIds(call.db))
        IN /\ call.out.raised = "none"
           /\ call.out.attempted = PublishedIds(call.db)
           /\ call.out.report.total = N
           /\ N > 0 => call.out.report.success + call.out.report.failed = N

\* ------------------------------------------------ the refresh specification
\* The body of the refresh task run on the rows of the published videos
\* (the query get_all_published_videos stands for), with the index update
\* failing for any set of ids.
RefreshBody ==
    /\ call.op = "refresh" /\ call.out = None
    /\ call' = [call EXCEPT !.out = refresh_body(get_all_published_videos(call.db),
                                                 call.db, call.idx, call.es_fails)]
    /\ UNCHANGED <<pipeVars, stat, statOps>>

SpecRefresh == InitRefresh /\ [][RefreshBody]_vars

\* C26: after a run of the refresh job every id without a document still has
\* none, every document differs from what it was in hot_score and
\* updated_at only, and the rows of the videos table are what they were.
C26_RefreshFrame ==
    (call.op = "refresh" /\ call.out # None) =>
        /\ call.out.db = call.db
        /\ \A id \in RefreshIds :
              /\ call.idx[id] = None => call.out.idx[id] = None
              /\ call.idx[id] # None =>
                    /\ call.out.idx[id] # None
                    /\ call.out.idx[id] = [call.idx[id] EXCEPT
                                             !.hot_score = call.out.idx[id].hot_score,
                                             !.updated_at = call.out.idx[id].updated_at]

\* A run has refreshed the score of one document and has failed on a
\* published video that has no document, which still has none.
C26_Witness ==
    /\ call.op = "refresh" /\ call.out # None
    /\ \E id \in RefreshIds :
          /\ call.idx[id] # None /\ call.out.idx[id] # None
          /\ call.out.idx[id].hot_score # call.idx[id].hot_score
    /\ \E id \in RefreshIds :
          /\ call.db[id].status = "published" /\ id \notin call.es_fails
          /\ call.idx[id] = None /\ call.out.idx[id] = None

\* C27: when an execution of the transcode task returns its 'completed'
\* result, the row of its video exists, has status 'published' and has the
\* uploaded object as play_url.
C27_CompletedMeansPublished ==
    [][ \A t \in Tasks :
          (tasks[t].st = "running" /\ tasks'[t].st = "succeeded") =>
              /\ Exists(tasks[t].video_id)
              /\ videos'[tasks[t].video_id].status = "published"
              /\ videos'[tasks[t].video_id].play_url = tasks[t].obj ]_vars

\* C28: every video of a response of search_videos has status 'published'
\* in the videos table the response was built from, whatever the index
\* returned.
C28_ResultsArePublished ==
    (call.op = "search" /\ call.out # None) =>
        \A k \in 1..Len(call.out.videos) :
            call.db[call.out.videos[k].id].status = "published"

\* The published rows that satisfy every filter of the request: the rows the
\* pages of the fallback query are cut from.
SatisfyAllFilters(db, query) ==
    {i \in DOMAIN db :
        /\ db[i].status = "published"
        /\ query.q # <<>> => TextMatch(db[i], query.q)
        /\ query.author_id # 0 => db[i].author_id = query.author_id
        /\ query.video_id # 0 => i = query.video_id
        /\ query.start_time # 0 =>
              (db[i].publish_time # None /\ db[i].publish_time[1] >= query.start_time)
        /\ query.end_time # 0 =>
              (db[i].publish_time # None /\ db[i].publish_time[1] <= query.end_time)}

\* C29: on the fallback path the total of the response is the number of
\* published rows that satisfy all filters of the request (search term,
\* author_id, video_id, start_time, end_time).
C29_FallbackTotalCountsAllFilters ==
    (call.op = "search" /\ call.out # None /\ call.db_ok) =>
        call.out.total = Cardinality(SatisfyAllFilters(call.db, call.query))

\* ================================================== favorites and comments
\* The favorite and comment endpoints of one video. The state is kept in
\* call: the users with a row in favorites, the comments (parent[c]: -1 no
\* row, 0 a top-level comment, otherwise the id of the comment replied to),
\* the two counter columns of the video, and the requests in flight.
MaxEngageReqs == 2   \* favorite / comment requests in flight
MaxEngageOps == 4    \* requests started in one behaviour
MaxComments == 2     \* comment ids
EngageReqs == 1..MaxEngageReqs
CommentIds == 1..MaxComments

\* VideoCRUD.increment_favorite_count / increment_comment_count:
\* UPDATE videos SET c = c + 1 WHERE id = :id
increment_favorite_count(n) == n + 1
increment_comment_count(n) == n + 1

\* decrement_favorite_count without the condition favorite_count > 0
decrement_favorite_count_Unguarded(n) == n - 1

\* VideoCRUD.decrement_favorite_count:
\* UPDATE videos SET c = c - 1 WHERE id = :id AND c > 0
decrement_favorite_count(n) == IF n > 0 THEN n - 1 ELSE n

\* VideoCRUD.decrement_comment_count, the same statement on comment_count
decrement_comment_count(n) == IF n > 0 THEN n - 1 ELSE n

NoEngageReq == [pc |-> "idle", user |-> 0, comment |-> 0]
NoWrite == [fn |-> "none", before |-> 0, after |-> 0]

\* The video has been created with both counters 0 and has been favorited
\* and commented on, or not; its counters may lag behind the rows, being
\* written by increment_video_stats as well (a lost update, a negative
\* increment), but start non-negative.
EngageStates ==
    { [op |-> "engage", favorites |-> f, parent |-> [c \in CommentIds |-> IF c = 1 THEN p ELSE -1],
       nextComment |-> IF p = -1 THEN 1 ELSE 2,
       favorite_count |-> fc, comment_count |-> cc,
       reqs |-> [r \in EngageReqs |-> NoEngageReq], started |-> 0, last |-> NoWrite] :
         f \in SUBSET Users, p \in {-1, 0}, fc \in {0, 1}, cc \in {0, 1} }

InitEngage == InitPipeline /\ stat = 0 /\ statOps = [p \in StatOps |-> NoStatOp]
              /\ call \in EngageStates

EngageStart(r) ==
    /\ call.op = "engage" /\ call.reqs[r].pc = "idle"
    /\ call.started < MaxEngageOps

\* favorite_video up to the check of an existing favorite (400 when there
\* is one).
FavoriteVideoCheck(r, u) ==
    /\ EngageStart(r)
    /\ u \notin call.favorites
    /\ call' = [call EXCEPT !.reqs[r] = [pc |-> "favorite", user |-> u, comment |-> 0],
                            !.started = @ + 1]
    /\ UNCHANGED <<pipeVars, stat, statOps>>

\* favorite_video from favorite_crud.create to the commit; the unique
\* constraint uq_user_video_favorite rejects a second row (500, rollback).
FavoriteVideoWrite(r) ==
    /\ call.op = "engage" /\ call.reqs[r].pc = "favorite"
    /\ LET u == call.reqs[r].user
       IN call' = IF u \in call.favorites
                  THEN [call EXCEPT !.reqs[r] = NoEngageReq]
                  ELSE [call EXCEPT
                          !.reqs[r] = NoEngageReq,
                          !.favorites = @ \cup {u},
                          !.favorite_count = increment_favorite_count(@),
                          !.last = [fn |-> "increment_favorite_count",
                                    before |-> call.favorite_count,
                                    after |-> increment_favorite_count(call.favorite_count)]]
    /\ UNCHANGED <<pipeVars, stat, statOps>>

\* unfavorite_video up to the check of the existing favorite (400 when
\* there is none).
UnfavoriteVideoCheck(r, u) ==
    /\ EngageStart(r)
    /\ u \in call.favorites
    /\ call' = [call EXCEPT !.reqs[r] = [pc |-> "unfavorite", user |-> u, comment |-> 0],
                            !.started = @ + 1]
    /\ UNCHANGED <<pipeVars, stat, statOps>>

\* unfavorite_video from favorite_crud.delete to the commit; a DELETE that
\* removes no row is answered 400 and rolled back.
UnfavoriteVideoWrite(r) ==
    /\ call.op = "engage" /\ call.reqs[r].pc = "unfavorite"
    /\ LET u == call.reqs[r].user
       IN call' = IF u \notin call.favorites
                  THEN [call EXCEPT !.reqs[r] = NoEngageReq]
                  ELSE [call EXCEPT
                          !.reqs[r] = NoEngageReq,
                          !.favorites = @ \ {u},
                          !.favorite_count = decrement_favorite_count(@),
                          !.last = [fn |-> "decrement_favorite_count",
                                    before |-> call.favorite_count,
                                    after |-> decrement_favorite_count(call.favorite_count)]]
    /\ UNCHANGED <<pipeVars, stat, statOps>>

\* create_comment: the parent, when given, must exist; the row is inserted
\* and comment_count incremented in one transaction.
CreateComment(r, parent_id) ==
    /\ EngageStart(r)
    /\ call.nextComment <= MaxComments
    /\ parent_id # 0 => (parent_id \in CommentIds /\ call.parent[parent_id] # -1)
    /\ call' = [call EXCEPT
                  !.parent[call.nextComment] = parent_id,
                  !.nextComment = @ + 1,
                  !.started = @ + 1,
                  !.comment_count = increment_comment_count(@),
                  !.last = [fn |-> "increment_comment_count",
                            before |-> call.comment_count,
                            after |-> increment_comment_count(call.comment_count)]]
    /\ UNCHANGED <<pipeVars, stat, statOps>>

\* delete_comment up to comment_crud.get_by_id (404 when there is no row).
DeleteCommentCheck(r, c) ==
    /\ EngageStart(r)
    /\ call.parent[c] # -1
    /\ call' = [call EXCEPT !.reqs[r] = [pc |-> "delete_comment", user |-> 0,
                                         comment |-> c],
                            !.started = @ + 1]
    /\ UNCHANGED <<pipeVars, stat, statOps>>

\* The comments removed with comment c: c and, by ON DELETE CASCADE of
\* parent_id, its replies and theirs.
RECURSIVE Cascade(_, _, _)
Cascade(parent, cs, n) ==
    IF n = 0 THEN cs
    ELSE Cascade(parent, cs \cup {d \in CommentIds : parent[d] \in cs}, n - 1)

\* delete_comment from comment_crud.delete to the commit: a DELETE that
\* removes no row is answered with an error and rolled back; otherwise
\* comment_count is decremented once.
DeleteCommentWrite(r) ==
    /\ call.op = "engage" /\ call.reqs[r].pc = "delete_comment"
    /\ LET c == call.reqs[r].comment
           gone == Cascade(call.parent, {c}, MaxComments)
       IN call' = IF call.parent[c] = -1
                  THEN [call EXCEPT !.reqs[r] = NoEngageReq]
                  ELSE [call EXCEPT
                          !.reqs[r] = NoEngageReq,
                          !.parent = [d \in CommentIds |-> IF d \in gone THEN -1 ELSE @[d]],
                          !.comment_count = decrement_comment_count(@),
                          !.last = [fn |-> "decrement_comment_count",
                                    before |-> call.comment_count,
                                    after |-> decrement_comment_count(call.comment_count)]]
    /\ UNCHANGED <<pipeVars, stat, statOps>>

NextEngage ==
    \/ \E r \in EngageReqs, u \in Users : FavoriteVideoCheck(r, u)
    \/ \E r \in EngageReqs : FavoriteVideoWrite(r)
    \/ \E r \in EngageReqs, u \in Users : UnfavoriteVideoCheck(r, u)
    \/ \E r \in EngageReqs : UnfavoriteVideoWrite(r)
    \/ \E r \in EngageReqs, p \in {0} \cup CommentIds : CreateComment(r, p)
    \/ \E r \in EngageReqs, c \in CommentIds : DeleteCommentCheck(r, c)
    \/ \E r \in EngageReqs : DeleteCommentWrite(r)

SpecEngage == InitEngage /\ [][NextEngage]_vars

\* C30: favorite_count and comment_count of the video are >= 0 after any
\* interleaving of favorite, unfavorite, comment-create and comment-delete
\* requests, and a decrement of a counter that is 0 leaves it 0.
C30_CountersNonNegative ==
    call.op = "engage" =>
        /\ call.favorite_count >= 0
        /\ call.comment_count >= 0
        /\ (/\ call.last.fn \in {"decrement_favorite_count", "decrement_comment_count"}
            /\ call.last.before = 0) => call.last.after = 0

\* An unfavorite has decremented favorite_count at 0 and left it 0.
C30_Witness ==
    /\ call.op = "engage"
    /\ call.last = [fn |-> "decrement_favorite_count", before |-> 0, after |-> 0]
    /\ call.favorite_count = 0

====
